---- MODULE Spec2Model ----
(***************************************************************************)
(* chatbot_memory: the two-tier conversational memory.                     *)
(*                                                                         *)
(* The repository holds one long-term backend (backends.MySQLBackend) and  *)
(* two MemoryManager classes: backends.MemoryManager (a list buffer with   *)
(* FIFO eviction, promotion on eviction, read-time reassessment) and       *)
(* memory.MemoryManager (a Chroma collection as short-term memory and      *)
(* consolidate_memory with the merge formula).  The variable impl says     *)
(* which class was constructed; the long_term table is the same for both.  *)
(*                                                                         *)
(* Scores are Python floats stored in FLOAT columns.  They are modelled as *)
(* exact rationals: an integer counts units of 1/(100 * Den) with          *)
(* Den = 2^MaxOps, so that the halving of the merge formula is exact for   *)
(* as many merges as a run can hold.  Binary rounding is not modelled.     *)
(* Times (datetime.now().isoformat() strings, compared as strings by       *)
(* MySQL) are modelled as an integer clock: every operation runs at a      *)
(* later instant than the one before it, and the datetime.now() calls      *)
(* inside one operation read the same instant.                             *)
(*                                                                         *)
(* Specifications: Spec (either manager, used by one caller), SpecStore    *)
(* (the same with direct add / update calls on the store), SpecLongRun     *)
(* (backends.MemoryManager without analyzer, longer runs) and SpecRace     *)
(* (process_content called from two threads, statement by statement).      *)
(***************************************************************************)
EXTENDS Integers, Sequences, FiniteSets, TLC

(* ------------------------------ bounds -------------------------------- *)

\* Operations (process_content, get_long_term, add, update) in one run.
MaxOps == 3

\* Largest max_short_term_size a run is constructed with.
MaxCapacity == 2

\* Operations in one run of a manager built without analyzer and with
\* max_short_term_size = 1 (specification SpecLongRun).
MaxLongRunOps == 5

(* --------------------------- values ----------------------------------- *)

Den == 2 ^ MaxOps

\* p hundredths as a score: P(50) is 0.5, P(100) is 1.0.
P(p) == p * Den

Min(a, b) == IF a <= b THEN a ELSE b

\* Python None / SQL NULL in the parent column (row ids start at 1).
None == 0

\* Texts are sequences of characters, so that LIKE '%q%' is a real
\* substring test: "" , "a", "ab".
Texts == { <<>>, <<"a">>, <<"a", "b">> }

\* The source tags callers pass.  "doc" is the tag memory.py's trim assumes.
Sources == { "doc", "web" }

\* sentiment ENUM('positive', 'negative', 'neutral')
Sentiments == { "positive", "negative", "neutral" }

\* dict.get(key, default) on a metadata / fact dictionary.
Get(d, key, default) == IF key \in DOMAIN d THEN d[key] ELSE default

(* ---------------------- MySQLBackend: long_term ------------------------ *)

\* UNIQUE KEY text_unique (text(255)): the key is the first 255 characters.
KeyPrefixLen == 255

TextKey(text) == SubSeq(text, 1, Min(Len(text), KeyPrefixLen))

\* text LIKE '%query_text%'
Like(text, query_text) ==
    \E i \in 0 .. (Len(text) - Len(query_text)) :
        SubSeq(text, i + 1, i + Len(query_text)) = query_text

\* The ids of the table: AUTO_INCREMENT from 1, no row is ever deleted.
Ids(rows) == 1 .. Len(rows)

\* A table without the unique key: no text ever collides.
NoUniqueKey(rows, text) == 0

\* The row whose unique key collides with text, 0 if there is none.
DuplicateOf(rows, text) ==
    IF \E i \in Ids(rows) : TextKey(rows[i].text) = TextKey(text)
    THEN CHOOSE i \in Ids(rows) : TextKey(rows[i].text) = TextKey(text)
    ELSE 0

\* FOREIGN KEY (parent) REFERENCES long_term(id): the statement fails
\* (IntegrityError) when parent names no row.  A new row may name itself.
ParentOk(rows, parent, self) ==
    parent = None \/ parent \in Ids(rows) \/ parent = self

\* The column values add() computes from metadata (lines 53-60); clock is
\* the value datetime.now() returns at line 53.
AddValues(text, metadata, clock) ==
    LET timestamp == Get(metadata, "timestamp", clock)
    IN  [ text          |-> text,
          truthfulness  |-> Get(metadata, "truthfulness", P(50)),
          importance    |-> Get(metadata, "importance", P(50)),
          sentiment     |-> Get(metadata, "sentiment", "neutral"),
          source        |-> Get(metadata, "type", "unknown"),
          parent        |-> Get(metadata, "parent", None),
          timestamp     |-> timestamp,
          last_accessed |-> Get(metadata, "last_accessed", timestamp) ]

\* add() raises: the INSERT ... ON DUPLICATE KEY UPDATE violates the
\* foreign key.
AddRaises(rows, text, metadata) ==
    LET dup == DuplicateOf(rows, text)
        self == IF dup = 0 THEN Len(rows) + 1 ELSE dup
    IN  ~ParentOk(rows, Get(metadata, "parent", None), self)

\* INSERT ... ON DUPLICATE KEY UPDATE (lines 62-72): a new row, or the
\* colliding row with every column but text and timestamp overwritten.
Add(rows, text, metadata, clock) ==
    LET v   == AddValues(text, metadata, clock)
        dup == DuplicateOf(rows, text)
    IN  IF AddRaises(rows, text, metadata) THEN rows
        ELSE IF dup = 0 THEN Append(rows, v)
        ELSE [rows EXCEPT ![dup] =
                 [ @ EXCEPT !.truthfulness  = v.truthfulness,
                            !.importance    = v.importance,
                            !.sentiment     = v.sentiment,
                            !.source        = v.source,
                            !.parent        = v.parent,
                            !.last_accessed = v.last_accessed ] ]

\* The columns update() may set (line 89).
UpdatableKeys ==
    { "truthfulness", "importance", "sentiment", "source", "parent", "last_accessed" }

\* update() raises: the UPDATE sets parent to an id that names no row.
UpdateRaises(rows, id_, metadata) ==
    /\ id_ \in Ids(rows)
    /\ "parent" \in DOMAIN metadata
    /\ ~ParentOk(rows, metadata["parent"], 0)

\* An update() that sets every key of metadata, 'timestamp' included.
UpdateAnyKey(rows, id_, metadata) ==
    IF id_ \notin Ids(rows) \/ UpdateRaises(rows, id_, metadata) THEN rows
    ELSE [rows EXCEPT ![id_] =
             [ k \in DOMAIN @ |-> IF k \in DOMAIN metadata THEN metadata[k] ELSE @[k] ] ]

\* UPDATE long_term SET <supplied updatable keys> WHERE id = id_ (l. 86-95).
\* An id that names no row changes nothing and raises nothing.
Update(rows, id_, metadata) ==
    IF id_ \notin Ids(rows) \/ UpdateRaises(rows, id_, metadata) THEN rows
    ELSE [rows EXCEPT ![id_] =
             [ k \in DOMAIN @ |->
                 IF k \in UpdatableKeys /\ k \in DOMAIN metadata
                 THEN metadata[k] ELSE @[k] ] ]

\* ORDER BY importance DESC, last_accessed DESC: a comes before b, or ties.
Before(rows, a, b) ==
    \/ rows[a].importance > rows[b].importance
    \/ /\ rows[a].importance = rows[b].importance
       /\ rows[a].last_accessed >= rows[b].last_accessed

Matches(rows, query_text) == { i \in Ids(rows) : Like(rows[i].text, query_text) }

\* query(): every id sequence the SELECT ... LIMIT top_k may return.  Rows
\* that tie on both sort columns come in an order SQL leaves open.
Query(rows, query_text, top_k) ==
    LET m == Matches(rows, query_text)
        n == Min(top_k, Cardinality(m))
    IN  { s \in [1 .. n -> m] :
            /\ \A i, j \in 1 .. n : i < j => (s[i] # s[j] /\ Before(rows, s[i], s[j]))
            /\ \A x \in m : (\A i \in 1 .. n : s[i] # x) =>
                   \A i \in 1 .. n : Before(rows, s[i], x) }

\* The (id_, metadata) tuples query() builds from the rows (lines 111-114).
Results(rows, ids) == [ i \in 1 .. Len(ids) |-> <<ids[i], rows[ids[i]]>> ]

(* ------------------------------ state --------------------------------- *)

VARIABLES
    impl,                   \* "backends" or "memory": the MemoryManager class
    HAS_ANALYZE,            \* memory_analyze could be imported
    max_short_term_size,    \* MemoryManager.max_short_term_size
    long_term,              \* the rows of table long_term, row i has id i
    short_term,             \* backends.MemoryManager.short_term
    short_term_collection,  \* memory.MemoryManager.short_term_collection
    threads,                \* the process_content calls in progress, per thread
    max_ops,                \* the number of operations the application makes
    now,                    \* the wall clock
    calls,                  \* the contents passed to process_content so far
    others,                 \* number of other operations so far
    crashed,                \* some operation so far ended in an exception
    last                    \* the last operation: its arguments and outcome

vars == << impl, HAS_ANALYZE, max_short_term_size, long_term, short_term,
           short_term_collection, threads, max_ops, now, calls, others, crashed,
           last >>

config == << impl, HAS_ANALYZE, max_short_term_size, max_ops >>

\* The record kept of the last operation.
\*   op       the operation;  text, top_k  its content / query_text and top_k
\*   given    the default truthfulness and importance of the call
\*   evicted  an entry left the short-term buffer
\*   matched  the ids the operation's first long-term query returned
\*   written  the ids of the records it then wrote to
\*   raised   the call ended in an exception
\*   result   what get_long_term returned
Outcome(op, text, top_k, given, evicted, matched, written, raised, result) ==
    [ op |-> op, text |-> text, top_k |-> top_k, given |-> given, evicted |-> evicted,
      matched |-> matched, written |-> written, raised |-> raised,
      result |-> result ]

OpsLeft == Len(calls) + others < max_ops

\* The threads of the application that call process_content on the one
\* MemoryManager.
Threads == { 1, 2 }

\* The local variables of a process_content call in progress on a thread.
\*   pc                     the statement the thread executes next
\*   source, content        the arguments of the call
\*   metadata               backends.py: the working metadata (line 137)
\*   oldest_doc, oldest_meta  backends.py: the popped entry (lines 152-153)
\*   timestamp, facts, i    memory.py: lines 39, 43-52 and the loop position
\*   stamp                  memory.py: consolidate_memory's timestamp (line 75)
\*   oldest                 memory.py: the trim's oldest timestamp (line 70)
\*   existing               the (id_, metadata) tuples the long-term query
\*                          returned (backends.py 157, memory.py 79)
NoMetadata ==
    [ truthfulness |-> 0, importance |-> 0, sentiment |-> "neutral", source |-> "",
      parent |-> None, timestamp |-> 0, last_accessed |-> 0 ]

\* A thread that is in no call.
Idle ==
    [ pc |-> "idle", source |-> "", content |-> << >>, metadata |-> NoMetadata,
      oldest_doc |-> << >>, oldest_meta |-> NoMetadata, timestamp |-> 0,
      facts |-> << >>, i |-> 0, stamp |-> 0, oldest |-> 0, existing |-> << >> ]

\* The state of a new manager over an empty table, before any call.
Fresh ==
    /\ long_term = << >>
    /\ short_term = [ documents |-> << >>, metadatas |-> << >> ]
    /\ short_term_collection = << >>
    /\ threads = [ t \in Threads |-> Idle ]
    /\ now = 0
    /\ calls = << >>
    /\ others = 0
    /\ crashed = FALSE
    /\ last = Outcome("init", << >>, 0, << >>, FALSE, << >>, {}, FALSE, << >>)

\* MemoryManager.__init__ (backends.py 120-124, memory.py 20-35) on a freshly
\* initialised table.
Init ==
    /\ impl \in { "backends", "memory" }
    /\ HAS_ANALYZE \in BOOLEAN
    /\ max_short_term_size \in 1 .. MaxCapacity
    /\ max_ops = MaxOps
    /\ Fresh

\* datetime.now() during the next operation.
Clock == now + 1

(* ------------------------------ Analyzer ------------------------------- *)

\* What memory_analyze.analyze_data may do: raise, return None, or return
\* a list of fact dictionaries, each with any of the keys text,
\* truthfulness, importance, sentiment.
Other(text) == IF text = << "a" >> THEN << "a", "b" >> ELSE << "a" >>

FactLow(text) ==
    [ text |-> text, truthfulness |-> P(80), importance |-> P(20),
      sentiment |-> "positive" ]

FactOver(text) ==
    [ text |-> text, truthfulness |-> P(120), importance |-> P(120),
      sentiment |-> "negative" ]

FactBare(text) == [ text |-> text ]

FactNoText == [ truthfulness |-> P(80), importance |-> P(20) ]

Analysis(kind, facts) == [ kind |-> kind, facts |-> facts ]

AnalyzerResults(content) ==
    { Analysis("raise", << >>),
      Analysis("none", << >>),
      Analysis("list", << >>),
      Analysis("list", << FactNoText >>),
      Analysis("list", << FactBare(content) >>),
      Analysis("list", << FactLow(content) >>),
      Analysis("list", << FactOver(content) >>),
      Analysis("list", << FactLow(content), FactOver(Other(content)) >>) }

\* `analysis and 'text' in analysis[0]`
Usable(analysis) ==
    /\ analysis.kind = "list"
    /\ Len(analysis.facts) > 0
    /\ "text" \in DOMAIN analysis.facts[1]

\* A fallback fact with zero scores and no sentiment.
ZeroFact(content) ==
    [ text |-> content, truthfulness |-> 0, importance |-> 0 ]

\* The neutral fallback fact of backends.process_content (lines 132, 134).
DefaultFact(content) ==
    [ text |-> content, truthfulness |-> P(50), importance |-> P(50),
      sentiment |-> "neutral" ]

(* -------------------- backends.MemoryManager --------------------------- *)

\* What the analyzer returns on one call: nothing is asked of it when the
\* package is absent.
Analyses(content) ==
    IF HAS_ANALYZE THEN AnalyzerResults(content) ELSE { Analysis("none", << >>) }

\* Lines 128-136: the fact process_content works with.
FirstFact(analysis, content) ==
    IF HAS_ANALYZE /\ Usable(analysis) THEN analysis.facts[1] ELSE DefaultFact(content)

\* Lines 137-145: the working metadata.
Metadata(fact, source, parent_id, clock) ==
    [ truthfulness  |-> Get(fact, "truthfulness", P(50)),
      importance    |-> Get(fact, "importance", P(50)),
      sentiment     |-> Get(fact, "sentiment", "neutral"),
      source        |-> source,
      parent        |-> parent_id,
      timestamp     |-> clock,
      last_accessed |-> clock ]

InSeq(x, seq) == \E i \in 1 .. Len(seq) : seq[i] = x

\* Lines 148-153: the buffer after the membership check, the append and the
\* pop of the oldest entry; evicted says whether an entry was popped, and
\* oldest_doc / oldest_meta are that entry.
BufferAdd(st, content, metadata, capacity) ==
    LET docs  == Append(st.documents, content)
        metas == Append(st.metadatas, metadata)
    IN  IF InSeq(content, st.documents)
        THEN [ short_term |-> st, evicted |-> FALSE,
               oldest_doc |-> << >>, oldest_meta |-> metadata ]
        ELSE IF Len(docs) > capacity
        THEN [ short_term |-> [ documents |-> Tail(docs), metadatas |-> Tail(metas) ],
               evicted |-> TRUE,
               oldest_doc |-> Head(docs), oldest_meta |-> Head(metas) ]
        ELSE [ short_term |-> [ documents |-> docs, metadatas |-> metas ],
               evicted |-> FALSE,
               oldest_doc |-> << >>, oldest_meta |-> metadata ]

\* Lines 165-171: the metadata written over an existing record when the
\* fresh analysis is usable.
ReassessedMeta(new_fact, existing_meta, source, clock) ==
    [ truthfulness  |-> Get(new_fact, "truthfulness", existing_meta.truthfulness),
      importance    |-> Get(new_fact, "importance", existing_meta.importance),
      sentiment     |-> Get(new_fact, "sentiment", existing_meta.sentiment),
      source        |-> source,
      last_accessed |-> clock ]

\* Lines 174-177: the metadata written when there is no analyzer.
TouchedMeta(source, clock) == [ source |-> source, last_accessed |-> clock ]

\* Lines 157-178: the outcomes of the merge step on table rows.
MergeStep(rows, source, content, clock) ==
    LET found == Query(rows, content, 1)
    IN  UNION { IF Len(existing) = 0
                THEN { [ long_term |-> rows, matched |-> existing, written |-> {},
                         raised |-> FALSE ] }
                ELSE LET id_ == existing[1]
                     IN  IF HAS_ANALYZE
                         THEN { IF new_analysis.kind = "raise"
                                THEN [ long_term |-> rows, matched |-> existing,
                                       written |-> {}, raised |-> TRUE ]
                                ELSE IF Usable(new_analysis)
                                THEN [ long_term |->
                                         Update(rows, id_,
                                                ReassessedMeta(new_analysis.facts[1],
                                                               rows[id_], source, clock)),
                                       matched |-> existing, written |-> { id_ },
                                       raised |-> FALSE ]
                                ELSE [ long_term |-> rows, matched |-> existing,
                                       written |-> {}, raised |-> FALSE ]
                                : new_analysis \in Analyses(content) }
                         ELSE { [ long_term |-> Update(rows, id_, TouchedMeta(source, clock)),
                                  matched |-> existing, written |-> { id_ },
                                  raised |-> FALSE ] }
              : existing \in found }

\* process_content (lines 126-178): every outcome of one call.
ProcessOutcomes(source, content, parent_id) ==
    UNION { IF analysis.kind = "raise"
            THEN { [ long_term |-> long_term, short_term |-> short_term,
                     evicted |-> FALSE, matched |-> << >>, written |-> {},
                     raised |-> TRUE ] }
            ELSE LET fact     == FirstFact(analysis, content)
                     metadata == Metadata(fact, source, parent_id, Clock)
                     b        == BufferAdd(short_term, content, metadata,
                                           max_short_term_size)
                 IN  IF b.evicted /\ AddRaises(long_term, b.oldest_doc, b.oldest_meta)
                     THEN { [ long_term |-> long_term, short_term |-> b.short_term,
                              evicted |-> TRUE, matched |-> << >>, written |-> {},
                              raised |-> TRUE ] }
                     ELSE LET rows == IF b.evicted
                                      THEN Add(long_term, b.oldest_doc, b.oldest_meta, Clock)
                                      ELSE long_term
                          IN  { [ long_term |-> m.long_term, short_term |-> b.short_term,
                                  evicted |-> b.evicted, matched |-> m.matched,
                                  written |-> m.written, raised |-> m.raised ]
                                : m \in MergeStep(rows, source, content, Clock) }
          : analysis \in Analyses(content) }

\* The parent_id values callers pass.
ParentIds == { None }

ProcessContent ==
    /\ impl = "backends"
    /\ OpsLeft
    /\ \E source \in Sources, content \in Texts, parent_id \in ParentIds :
         \E o \in ProcessOutcomes(source, content, parent_id) :
            /\ long_term' = o.long_term
            /\ short_term' = o.short_term
            /\ calls' = Append(calls, content)
            /\ crashed' = (crashed \/ o.raised)
            /\ last' = Outcome("process_content", content, 0, << P(50), P(50) >>,
                               o.evicted, o.matched, o.written, o.raised, << >>)
    /\ now' = Clock
    /\ UNCHANGED << config, threads, short_term_collection, others >>

\* The top_k values callers pass to get_long_term.
TopKs == { 1, 2 }

\* Lines 191-196: the metadata get_long_term writes over a record it has
\* read, when the fresh analysis is usable.
ReadReassessedMeta(new_fact, metadata, clock) ==
    [ truthfulness  |-> Get(new_fact, "truthfulness", metadata.truthfulness),
      importance    |-> Get(new_fact, "importance", metadata.importance),
      sentiment     |-> Get(new_fact, "sentiment", metadata.sentiment),
      last_accessed |-> clock ]

\* An access that stamps the epoch instead of the current time.
EpochAccessedMeta(clock) == [ last_accessed |-> 0 ]

\* Line 199: the metadata get_long_term writes when there is no analyzer.
AccessedMeta(clock) == [ last_accessed |-> clock ]

\* Lines 186-200: the loop over results, from its i-th element on; read is
\* the table as the first query saw it.
RECURSIVE Reassess(_, _, _, _, _)
Reassess(rows, read, results, i, clock) ==
    IF i > Len(results)
    THEN { [ long_term |-> rows, written |-> {}, raised |-> FALSE ] }
    ELSE LET id_      == results[i]
             metadata == read[id_]
             Rest(next_rows, wrote) ==
                 { [ r EXCEPT !.written = @ \cup wrote ]
                   : r \in Reassess(next_rows, read, results, i + 1, clock) }
         IN  IF HAS_ANALYZE
             THEN UNION { IF new_analysis.kind = "raise"
                          THEN { [ long_term |-> rows, written |-> {}, raised |-> TRUE ] }
                          ELSE IF Usable(new_analysis)
                          THEN Rest(Update(rows, id_,
                                           ReadReassessedMeta(new_analysis.facts[1],
                                                              metadata, clock)),
                                    { id_ })
                          ELSE Rest(rows, {})
                        : new_analysis \in Analyses(metadata.text) }
             ELSE Rest(Update(rows, id_, AccessedMeta(clock)), { id_ })

\* A get_long_term that returns the tuples its first query read.
GetLongTermReturnsRead(query_text, top_k) ==
    UNION { { [ long_term |-> r.long_term, matched |-> results,
                written |-> r.written, raised |-> r.raised,
                result |-> IF r.raised THEN << >> ELSE Results(long_term, results) ]
              : r \in Reassess(long_term, long_term, results, 1, Clock) }
          : results \in Query(long_term, query_text, top_k) }

\* get_long_term (lines 183-201): every outcome of one call.  The value
\* returned is a second query, run after the loop.
GetLongTermOutcomes(query_text, top_k) ==
    UNION { UNION { IF r.raised
                    THEN { [ long_term |-> r.long_term, matched |-> results,
                             written |-> r.written, raised |-> TRUE,
                             result |-> << >> ] }
                    ELSE { [ long_term |-> r.long_term, matched |-> results,
                             written |-> r.written, raised |-> FALSE,
                             result |-> Results(r.long_term, again) ]
                           : again \in Query(r.long_term, query_text, top_k) }
                  : r \in Reassess(long_term, long_term, results, 1, Clock) }
          : results \in Query(long_term, query_text, top_k) }

GetLongTerm ==
    /\ impl = "backends"
    /\ OpsLeft
    /\ \E query_text \in Texts, top_k \in TopKs :
         \E o \in GetLongTermOutcomes(query_text, top_k) :
            /\ long_term' = o.long_term
            /\ crashed' = (crashed \/ o.raised)
            /\ last' = Outcome("get_long_term", query_text, top_k, << >>, FALSE,
                               o.matched, o.written, o.raised, o.result)
    /\ now' = Clock
    /\ others' = others + 1
    /\ UNCHANGED << config, threads, short_term, short_term_collection, calls >>

(* ---------------- direct calls of the LongTermStore -------------------- *)

\* The metadata dictionaries an application passes to add().
AddMetas ==
    { << >>,
      [ truthfulness |-> P(80), importance |-> P(20), sentiment |-> "positive",
        type |-> "doc", parent |-> 1 ],
      [ importance |-> P(80), timestamp |-> 0, last_accessed |-> Clock ] }

\* MySQLBackend.add called directly.
BackendAdd ==
    /\ OpsLeft
    /\ \E text \in Texts, metadata \in AddMetas :
         /\ long_term' = Add(long_term, text, metadata, Clock)
         /\ crashed' = (crashed \/ AddRaises(long_term, text, metadata))
         /\ last' = Outcome("add", text, 0, << >>, FALSE,
                            IF DuplicateOf(long_term, text) = 0 THEN << >>
                            ELSE << DuplicateOf(long_term, text) >>,
                            IF AddRaises(long_term, text, metadata) THEN {}
                            ELSE IF DuplicateOf(long_term, text) = 0
                            THEN { Len(long_term) + 1 }
                            ELSE { DuplicateOf(long_term, text) },
                            AddRaises(long_term, text, metadata), << >>)
    /\ now' = Clock
    /\ others' = others + 1
    /\ UNCHANGED << config, threads, short_term, short_term_collection, calls >>

\* The partial metadata dictionaries an application passes to update().
UpdateMetas ==
    { [ importance |-> P(20) ],
      [ source |-> "doc", last_accessed |-> Clock ],
      [ timestamp |-> 0, parent |-> 1 ] }

\* MySQLBackend.update called directly, on an id that may name no row.
BackendUpdate ==
    /\ OpsLeft
    /\ \E id_ \in 1 .. (Len(long_term) + 1), metadata \in UpdateMetas :
         /\ long_term' = Update(long_term, id_, metadata)
         /\ crashed' = (crashed \/ UpdateRaises(long_term, id_, metadata))
         /\ last' = Outcome("update", << >>, id_, << >>, FALSE, << >>,
                            IF id_ \in Ids(long_term)
                               /\ ~UpdateRaises(long_term, id_, metadata)
                            THEN { id_ } ELSE {},
                            UpdateRaises(long_term, id_, metadata), << >>)
    /\ now' = Clock
    /\ others' = others + 1
    /\ UNCHANGED << config, threads, short_term, short_term_collection, calls >>

(* ---------------------- memory.MemoryManager --------------------------- *)

\* The short-term Chroma collection is a sequence of entries in insertion
\* order; an entry's id f'{source}_{timestamp}' is the pair <<source, timestamp>>.
Documents(collection) == { collection[i].document : i \in 1 .. Len(collection) }

\* short_term_collection.add (lines 56-65): an id the collection already
\* holds is not added again.
CollectionAdd(collection, source, timestamp, fact) ==
    IF \E i \in 1 .. Len(collection) : collection[i].id = << source, timestamp >>
    THEN collection
    ELSE Append(collection,
                [ id       |-> << source, timestamp >>,
                  document |-> fact.text,
                  metadata |-> [ type         |-> source,
                                 timestamp    |-> timestamp,
                                 truthfulness |-> fact.truthfulness,
                                 importance   |-> fact.importance ] ])

\* Line 78: a nearest short-term entry counts as the same fact below this
\* distance, in hundredths.
DistanceThreshold == 20

\* The distances, in hundredths, the embedding may put between text and the
\* nearest short-term document: 0 to an equal document, and for other
\* documents whatever the embedding model says.
NearestDistances(collection, text) ==
    IF Len(collection) = 0 THEN {}
    ELSE IF text \in Documents(collection) THEN { 0 }
    ELSE { 10, 50 }

\* query()'s default top_k (backends.py line 99).
DefaultTopK == 5

\* Lines 82-87: the merge of an existing record with a new observation.
MergedMeta(existing_meta, truthfulness, clock) ==
    [ truthfulness  |-> Min(P(100), (existing_meta.truthfulness + truthfulness) \div 2 + P(10)),
      importance    |-> Min(P(100), existing_meta.importance + P(5)),
      timestamp     |-> clock,
      last_accessed |-> clock ]

\* Lines 89-92: the metadata of a record consolidate_memory inserts.
InsertedMeta(truthfulness, importance, clock) ==
    [ truthfulness |-> truthfulness, importance |-> importance,
      timestamp |-> clock, last_accessed |-> clock ]

\* A consolidate_memory that never looks for an existing record and always
\* goes to add().
ConsolidateAlwaysInserts(collection, rows, text, truthfulness, importance, clock) ==
    { Add(rows, text, InsertedMeta(truthfulness, importance, clock), clock) }

\* consolidate_memory (lines 73-93): every table it may leave behind.
ConsolidateMemory(collection, rows, text, truthfulness, importance, clock) ==
    LET inserted == Add(rows, text, InsertedMeta(truthfulness, importance, clock), clock)
        distances == NearestDistances(collection, text)
    IN  IF distances = {} THEN { inserted }
        ELSE UNION { IF distance < DistanceThreshold
                     THEN { IF Len(existing_data) > 0
                            THEN Update(rows, existing_data[1],
                                        MergedMeta(rows[existing_data[1]], truthfulness, clock))
                            ELSE inserted
                            : existing_data \in Query(rows, text, DefaultTopK) }
                     ELSE { inserted }
                   : distance \in distances }

\* A fact the loop can store: fact['text'], fact['truthfulness'] and
\* fact['importance'] exist (a missing key is a KeyError).
Storable(fact) == { "text", "truthfulness", "importance" } \subseteq DOMAIN fact

\* Lines 54-66: the loop over facts, from its i-th element on.
RECURSIVE StoreFacts(_, _, _, _, _, _)
StoreFacts(collection, rows, facts, i, source, clock) ==
    IF i > Len(facts)
    THEN { [ short_term_collection |-> collection, long_term |-> rows, raised |-> FALSE ] }
    ELSE IF ~Storable(facts[i])
    THEN { [ short_term_collection |-> collection, long_term |-> rows, raised |-> TRUE ] }
    ELSE LET added == CollectionAdd(collection, source, clock, facts[i])
         IN  UNION { StoreFacts(added, next_rows, facts, i + 1, source, clock)
                     : next_rows \in ConsolidateMemory(added, rows, facts[i].text,
                                                       facts[i].truthfulness,
                                                       facts[i].importance, clock) }

\* Lines 69-71: the trim.  It deletes the id f'doc_{oldest}'.
Trim(collection, capacity) ==
    IF Len(collection) > capacity
    THEN LET oldest == collection[1].metadata.timestamp
         IN  SelectSeq(collection, LAMBDA e : e.id # << "doc", oldest >>)
    ELSE collection

\* The default_truthfulness / default_importance arguments callers pass.
DefaultTruthfulness == { P(50), P(80) }

DefaultImportance == { P(50) }

\* Lines 41-52: the facts process_content stores.
FactsOf(analysis, content, default_truthfulness, default_importance) ==
    IF HAS_ANALYZE /\ analysis.kind = "list" THEN analysis.facts
    ELSE << [ text |-> content, truthfulness |-> default_truthfulness,
              importance |-> default_importance ] >>

\* memory.MemoryManager.process_content (lines 37-71): every outcome.
MemoryProcessOutcomes(source, content, default_truthfulness, default_importance) ==
    UNION { IF analysis.kind = "raise"
            THEN { [ short_term_collection |-> short_term_collection,
                     long_term |-> long_term, evicted |-> FALSE, raised |-> TRUE ] }
            ELSE { LET trimmed == Trim(o.short_term_collection, max_short_term_size)
                   IN  IF o.raised
                       THEN [ short_term_collection |-> o.short_term_collection,
                              long_term |-> o.long_term, evicted |-> FALSE,
                              raised |-> TRUE ]
                       ELSE [ short_term_collection |-> trimmed,
                              long_term |-> o.long_term,
                              evicted |-> Len(trimmed) < Len(o.short_term_collection),
                              raised |-> FALSE ]
                   : o \in StoreFacts(short_term_collection, long_term,
                                      FactsOf(analysis, content, default_truthfulness,
                                              default_importance),
                                      1, source, Clock) }
          : analysis \in Analyses(content) }

MemoryProcessContent ==
    /\ impl = "memory"
    /\ OpsLeft
    /\ \E source \in Sources, content \in Texts,
          default_truthfulness \in DefaultTruthfulness,
          default_importance \in DefaultImportance :
         \E o \in MemoryProcessOutcomes(source, content, default_truthfulness,
                                        default_importance) :
            /\ long_term' = o.long_term
            /\ short_term_collection' = o.short_term_collection
            /\ calls' = Append(calls, content)
            /\ crashed' = (crashed \/ o.raised)
            /\ last' = Outcome("process_content", content, 0,
                               << default_truthfulness, default_importance >>,
                               o.evicted, << >>,
                               { id_ \in Ids(o.long_term) :
                                   id_ \notin Ids(long_term)
                                   \/ o.long_term[id_] # long_term[id_] },
                               o.raised, << >>)
    /\ now' = Clock
    /\ UNCHANGED << config, threads, short_term, others >>

\* query_text=None, the default, is formatted into the pattern as the
\* text 'None'.
NoneText == << "N", "o", "n", "e" >>

\* memory.MemoryManager.get_long_term (lines 101-105): a plain query.
MemoryGetLongTerm ==
    /\ impl = "memory"
    /\ OpsLeft
    /\ \E query_text \in Texts \cup { NoneText } :
         \E results \in Query(long_term, query_text, DefaultTopK) :
            last' = Outcome("get_long_term", query_text, DefaultTopK, << >>, FALSE,
                            results, {}, FALSE, Results(long_term, results))
    /\ now' = Clock
    /\ others' = others + 1
    /\ UNCHANGED << config, threads, long_term, short_term, short_term_collection, calls,
                    crashed >>

(* ------------- process_content on concurrent threads ------------------- *)

\* The class has no lock.  When several threads of the application call
\* process_content on one MemoryManager, a call is a sequence of steps, one
\* per access to the shared buffer or to the store (each list operation
\* and each SQL statement is atomic by itself), and the steps of different
\* threads interleave.  The statements between two accesses touch only
\* locals and belong to the step of the access that follows them.

\* The contents and the default_truthfulness the concurrent callers pass.
ThreadTexts == { << "a" >>, << "a", "b" >> }

ThreadTruthfulness == { P(50) }

\* A merge that reads the record again when it writes: the metadata now
\* stored for the record thread t has found.
StoredMetadata(t) == long_term[threads[t].existing[1][1]]

\* The metadata of the record thread t has found, as its query returned it
\* (existing[0] / existing_data[0]: backends.py 159, memory.py 81).
ReadMetadata(t) == threads[t].existing[1][2]

\* The thread is at statement pc.
At(t, pc) == threads[t].pc = pc

\* Thread t continues with locals.
Goto(t, locals) == threads' = [ threads EXCEPT ![t] = locals ]

\* backends.py 126-148: the analysis, the working metadata and the
\* membership test `content not in self.short_term['documents']`.
Enter ==
    /\ impl = "backends"
    /\ OpsLeft
    /\ \E t \in Threads, source \in Sources, content \in ThreadTexts,
          parent_id \in ParentIds :
         /\ At(t, "idle")
         /\ \E analysis \in Analyses(content) :
               IF analysis.kind = "raise"
               THEN /\ crashed' = TRUE
                    /\ UNCHANGED threads
               ELSE /\ crashed' = crashed
                    /\ Goto(t, [ Idle EXCEPT
                                   !.pc = IF InSeq(content, short_term.documents)
                                          THEN "query" ELSE "append_doc",
                                   !.source = source,
                                   !.content = content,
                                   !.metadata = Metadata(FirstFact(analysis, content),
                                                         source, parent_id, Clock) ])
         /\ calls' = Append(calls, content)
    /\ now' = Clock
    /\ UNCHANGED << config, long_term, short_term, short_term_collection, others,
                    last >>

\* backends.py 149: self.short_term['documents'].append(content)
AppendDocument ==
    /\ \E t \in Threads :
         /\ At(t, "append_doc")
         /\ short_term' = [ short_term EXCEPT
                               !.documents = Append(@, threads[t].content) ]
         /\ Goto(t, [ threads[t] EXCEPT !.pc = "append_meta" ])
    /\ UNCHANGED << config, long_term, short_term_collection, now, calls, others,
                    crashed, last >>

\* backends.py 150: self.short_term['metadatas'].append(metadata)
AppendMetadata ==
    /\ \E t \in Threads :
         /\ At(t, "append_meta")
         /\ short_term' = [ short_term EXCEPT
                               !.metadatas = Append(@, threads[t].metadata) ]
         /\ Goto(t, [ threads[t] EXCEPT !.pc = "len" ])
    /\ UNCHANGED << config, long_term, short_term_collection, now, calls, others,
                    crashed, last >>

\* backends.py 151: if len(self.short_term['documents']) > self.max_short_term_size
CheckSize ==
    /\ \E t \in Threads :
         /\ At(t, "len")
         /\ Goto(t, [ threads[t] EXCEPT
                         !.pc = IF Len(short_term.documents) > max_short_term_size
                                THEN "pop_doc" ELSE "query" ])
    /\ UNCHANGED << config, long_term, short_term, short_term_collection, now, calls,
                    others, crashed, last >>

\* backends.py 152: oldest_doc = self.short_term['documents'].pop(0); an
\* empty list raises IndexError.
PopDocument ==
    /\ \E t \in Threads :
         /\ At(t, "pop_doc")
         /\ IF Len(short_term.documents) = 0
            THEN /\ crashed' = TRUE
                 /\ Goto(t, Idle)
                 /\ UNCHANGED short_term
            ELSE /\ crashed' = crashed
                 /\ short_term' = [ short_term EXCEPT !.documents = Tail(@) ]
                 /\ Goto(t, [ threads[t] EXCEPT
                                 !.pc = "pop_meta",
                                 !.oldest_doc = Head(short_term.documents) ])
    /\ UNCHANGED << config, long_term, short_term_collection, now, calls, others,
                    last >>

\* backends.py 153: oldest_meta = self.short_term['metadatas'].pop(0)
PopMetadata ==
    /\ \E t \in Threads :
         /\ At(t, "pop_meta")
         /\ IF Len(short_term.metadatas) = 0
            THEN /\ crashed' = TRUE
                 /\ Goto(t, Idle)
                 /\ UNCHANGED short_term
            ELSE /\ crashed' = crashed
                 /\ short_term' = [ short_term EXCEPT !.metadatas = Tail(@) ]
                 /\ Goto(t, [ threads[t] EXCEPT
                                 !.pc = "add",
                                 !.oldest_meta = Head(short_term.metadatas) ])
    /\ UNCHANGED << config, long_term, short_term_collection, now, calls, others,
                    last >>

\* backends.py 154: self.long_term_backend.add(oldest_doc, oldest_meta)
Promote ==
    /\ \E t \in Threads :
         /\ At(t, "add")
         /\ long_term' = Add(long_term, threads[t].oldest_doc, threads[t].oldest_meta,
                             Clock)
         /\ IF AddRaises(long_term, threads[t].oldest_doc, threads[t].oldest_meta)
            THEN /\ crashed' = TRUE
                 /\ Goto(t, Idle)
            ELSE /\ crashed' = crashed
                 /\ Goto(t, [ threads[t] EXCEPT !.pc = "query" ])
    /\ UNCHANGED << config, short_term, short_term_collection, now, calls, others,
                    last >>

\* backends.py 157-158: existing = self.long_term_backend.query(content, top_k=1)
FindExisting ==
    /\ \E t \in Threads :
         /\ At(t, "query")
         /\ \E existing \in Query(long_term, threads[t].content, 1) :
               Goto(t, IF Len(existing) = 0 THEN Idle
                       ELSE [ threads[t] EXCEPT
                                !.pc = "update",
                                !.existing = Results(long_term, existing) ])
    /\ UNCHANGED << config, long_term, short_term, short_term_collection, now, calls,
                    others, crashed, last >>

\* backends.py 159-178: the reanalysis and the update of the record read at
\* line 157, from the metadata read then.
WriteExisting ==
    /\ \E t \in Threads :
         /\ At(t, "update")
         /\ LET id_           == threads[t].existing[1][1]
                existing_meta == ReadMetadata(t)
            IN  IF HAS_ANALYZE
                THEN \E new_analysis \in Analyses(threads[t].content) :
                        /\ crashed' = (crashed \/ new_analysis.kind = "raise")
                        /\ long_term' =
                              IF Usable(new_analysis)
                              THEN Update(long_term, id_,
                                          ReassessedMeta(new_analysis.facts[1],
                                                         existing_meta,
                                                         threads[t].source, Clock))
                              ELSE long_term
                ELSE /\ crashed' = crashed
                     /\ long_term' = Update(long_term, id_,
                                           TouchedMeta(threads[t].source, Clock))
         /\ Goto(t, Idle)
    /\ now' = Clock
    /\ UNCHANGED << config, short_term, short_term_collection, calls, others, last >>

\* memory.py 37-52: the timestamp and the facts.
MemoryEnter ==
    /\ impl = "memory"
    /\ OpsLeft
    /\ \E t \in Threads, source \in Sources, content \in ThreadTexts,
          default_truthfulness \in ThreadTruthfulness,
          default_importance \in DefaultImportance :
         /\ At(t, "idle")
         /\ \E analysis \in Analyses(content) :
               IF analysis.kind = "raise"
               THEN /\ crashed' = TRUE
                    /\ UNCHANGED threads
               ELSE LET facts == FactsOf(analysis, content, default_truthfulness,
                                        default_importance)
                    IN  /\ crashed' = crashed
                        /\ Goto(t, [ Idle EXCEPT
                                       !.pc = IF Len(facts) = 0 THEN "count" ELSE "store",
                                       !.source = source,
                                       !.content = content,
                                       !.timestamp = Clock,
                                       !.facts = facts,
                                       !.i = 1 ])
         /\ calls' = Append(calls, content)
    /\ now' = Clock
    /\ UNCHANGED << config, long_term, short_term, short_term_collection, others,
                    last >>

\* The fact the loop of thread t is at.
Fact(t) == threads[t].facts[threads[t].i]

\* memory.py 54, 66: the loop goes to its next fact, or to the trim.  (What
\* the last query returned stays on record until the call returns.)
NextFact(t) ==
    Goto(t, IF threads[t].i < Len(threads[t].facts)
            THEN [ threads[t] EXCEPT !.pc = "store", !.i = @ + 1, !.existing = << >> ]
            ELSE [ threads[t] EXCEPT !.pc = "count" ])

\* memory.py 56-65: self.short_term_collection.add(...)
StoreFact ==
    /\ \E t \in Threads :
         /\ At(t, "store")
         /\ IF Storable(Fact(t))
            THEN /\ crashed' = crashed
                 /\ short_term_collection' =
                       CollectionAdd(short_term_collection, threads[t].source,
                                     threads[t].timestamp, Fact(t))
                 /\ Goto(t, [ threads[t] EXCEPT !.pc = "nearest" ])
            ELSE /\ crashed' = TRUE
                 /\ Goto(t, Idle)
                 /\ UNCHANGED short_term_collection
    /\ UNCHANGED << config, long_term, short_term, now, calls, others, last >>

\* memory.py 75-78: consolidate_memory reads the clock and asks the
\* collection for the nearest document.
QueryNearest ==
    /\ \E t \in Threads :
         /\ At(t, "nearest")
         /\ LET distances == NearestDistances(short_term_collection, Fact(t).text)
            IN  \E near \in BOOLEAN :
                   /\ IF near
                      THEN \E distance \in distances : distance < DistanceThreshold
                      ELSE \/ distances = {}
                           \/ \E distance \in distances : distance >= DistanceThreshold
                   /\ Goto(t, [ threads[t] EXCEPT
                                   !.pc = IF near THEN "lookup" ELSE "insert",
                                   !.stamp = Clock ])
    /\ now' = Clock
    /\ UNCHANGED << config, long_term, short_term, short_term_collection, calls,
                    others, crashed, last >>

\* memory.py 79-80: existing_data = self.long_term_backend.query(text)
QueryExisting ==
    /\ \E t \in Threads :
         /\ At(t, "lookup")
         /\ \E existing_data \in Query(long_term, Fact(t).text, DefaultTopK) :
               Goto(t, [ threads[t] EXCEPT
                           !.pc = IF Len(existing_data) > 0 THEN "merge" ELSE "insert",
                           !.existing = Results(long_term, existing_data) ])
    /\ UNCHANGED << config, long_term, short_term, short_term_collection, now, calls,
                    others, crashed, last >>

\* memory.py 81-88: the merged scores, computed from the metadata read at
\* line 79, are written to the record.
MergeExisting ==
    /\ \E t \in Threads :
         /\ At(t, "merge")
         /\ long_term' = Update(long_term, threads[t].existing[1][1],
                                MergedMeta(ReadMetadata(t), Fact(t).truthfulness,
                                           threads[t].stamp))
         /\ NextFact(t)
    /\ UNCHANGED << config, short_term, short_term_collection, now, calls, others,
                    crashed, last >>

\* memory.py 89-93: self.long_term_backend.add(text, {...})
InsertNew ==
    /\ \E t \in Threads :
         /\ At(t, "insert")
         /\ long_term' = Add(long_term, Fact(t).text,
                             InsertedMeta(Fact(t).truthfulness, Fact(t).importance,
                                          threads[t].stamp),
                             threads[t].stamp)
         /\ NextFact(t)
    /\ UNCHANGED << config, short_term, short_term_collection, now, calls, others,
                    crashed, last >>

\* memory.py 69: if self.short_term_collection.count() > self.max_short_term_size
CountEntries ==
    /\ \E t \in Threads :
         /\ At(t, "count")
         /\ Goto(t, IF Len(short_term_collection) > max_short_term_size
                    THEN [ threads[t] EXCEPT !.pc = "oldest" ]
                    ELSE Idle)
    /\ UNCHANGED << config, long_term, short_term, short_term_collection, now, calls,
                    others, crashed, last >>

\* memory.py 70: oldest = ...get(limit=1, ...)['metadatas'][0]['timestamp'];
\* an empty collection raises IndexError.
ReadOldest ==
    /\ \E t \in Threads :
         /\ At(t, "oldest")
         /\ IF Len(short_term_collection) = 0
            THEN /\ crashed' = TRUE
                 /\ Goto(t, Idle)
            ELSE /\ crashed' = crashed
                 /\ Goto(t, [ threads[t] EXCEPT
                                 !.pc = "delete",
                                 !.oldest = short_term_collection[1].metadata.timestamp ])
    /\ UNCHANGED << config, long_term, short_term, short_term_collection, now, calls,
                    others, last >>

\* memory.py 71: self.short_term_collection.delete(ids=[f'doc_{oldest}'])
DeleteOldest ==
    /\ \E t \in Threads :
         /\ At(t, "delete")
         /\ short_term_collection' =
               SelectSeq(short_term_collection,
                         LAMBDA e : e.id # << "doc", threads[t].oldest >>)
         /\ Goto(t, Idle)
    /\ UNCHANGED << config, long_term, short_term, now, calls, others, crashed,
                    last >>

Next ==
    \/ ProcessContent
    \/ GetLongTerm
    \/ MemoryProcessContent
    \/ MemoryGetLongTerm

Spec == Init /\ [][Next]_vars

\* The MemoryManager together with an application that also calls the
\* LongTermStore directly.
NextStore ==
    \/ ProcessContent
    \/ GetLongTerm
    \/ MemoryProcessContent
    \/ MemoryGetLongTerm
    \/ BackendAdd
    \/ BackendUpdate

SpecStore == Init /\ [][NextStore]_vars

\* A longer run of backends.MemoryManager, built without analyzer and with
\* max_short_term_size = 1.
InitLongRun ==
    /\ impl = "backends"
    /\ HAS_ANALYZE = FALSE
    /\ max_short_term_size = 1
    /\ max_ops = MaxLongRunOps
    /\ Fresh

NextLongRun ==
    \/ ProcessContent
    \/ GetLongTerm

SpecLongRun == InitLongRun /\ [][NextLongRun]_vars

\* Either MemoryManager, built without analyzer and with
\* max_short_term_size = 1, called from the threads of the application.
InitRace ==
    /\ impl \in { "backends", "memory" }
    /\ HAS_ANALYZE = FALSE
    /\ max_short_term_size = 1
    /\ max_ops = MaxOps
    /\ Fresh

NextRace ==
    \/ Enter
    \/ AppendDocument
    \/ AppendMetadata
    \/ CheckSize
    \/ PopDocument
    \/ PopMetadata
    \/ Promote
    \/ FindExisting
    \/ WriteExisting
    \/ MemoryEnter
    \/ StoreFact
    \/ QueryNearest
    \/ QueryExisting
    \/ MergeExisting
    \/ InsertNew
    \/ CountEntries
    \/ ReadOldest
    \/ DeleteOldest

SpecRace == InitRace /\ [][NextRace]_vars

(* ============================== claims ================================= *)

\* The ids of the long-term records whose text is text.
RecordsOf(text) == { i \in Ids(long_term) : long_term[i].text = text }

\* Only process_content has been called, at least once, always with the
\* same content, and no call raised.
SameContentCalls ==
    /\ others = 0
    /\ ~crashed
    /\ Len(calls) >= 1
    /\ \A i \in 1 .. Len(calls) : calls[i] = calls[1]

UniqueText ==
    \A i, j \in Ids(long_term) : long_term[i].text = long_term[j].text => i = j

\* This step is a call of op (every operation advances the clock).
Step(op) == last'.op = op /\ now' # now

\* C2: in every state reachable by add, update, process_content and
\* get_long_term no two long-term records have the same text, and an
\* add(text, metadata) on a text that already has a record writes
\* metadata's values to that record, changes no other record and leaves the
\* number of records unchanged.
C2_TextIsUniqueKey ==
    /\ []UniqueText
    /\ [][ ( /\ Step("add")
             /\ ~last'.raised
             /\ RecordsOf(last'.text) # {} ) =>
           /\ Len(long_term') = Len(long_term)
           /\ \A i \in Ids(long_term) :
                 IF long_term[i].text = last'.text
                 THEN /\ last'.written = { i }
                      /\ long_term'[i].text = long_term[i].text
                      /\ long_term'[i].timestamp = long_term[i].timestamp
                      /\ \E metadata \in AddMetas :
                            \A k \in UpdatableKeys :
                               long_term'[i][k] = AddValues(last'.text, metadata, now')[k]
                 ELSE long_term'[i] = long_term[i] ]_vars

\* C2 witness: add() was called on a text that already had a record, and
\* the table holds two records with different texts.
C2_Witness ==
    /\ last.op = "add"
    /\ ~last.raised
    /\ last.matched # << >>
    /\ Len(long_term) >= 2

\* C3 as stated, for backends.MemoryManager: a process_content call leaves
\* every long-term record with an importance that is not below the one it
\* had before the call and not above 1.0.
C3_ImportanceMonotonic ==
    [][ (Step("process_content") /\ impl = "backends") =>
          \A i \in Ids(long_term) :
             /\ long_term'[i].importance >= long_term[i].importance
             /\ long_term'[i].importance <= P(100) ]_vars

\* The texts in the short-term buffer, oldest first.
BufferTexts ==
    IF impl = "backends" THEN short_term.documents
    ELSE [ i \in 1 .. Len(short_term_collection) |-> short_term_collection[i].document ]

\* The texts of the long-term records, in the order they were inserted.
LongTermTexts == [ i \in 1 .. Len(long_term) |-> long_term[i].text ]

\* Only process_content has been called, with pairwise distinct contents,
\* more of them than the buffer holds, and no call raised.
DistinctCalls ==
    /\ others = 0
    /\ ~crashed
    /\ Len(calls) > max_short_term_size
    /\ \A i, j \in 1 .. Len(calls) : calls[i] = calls[j] => i = j

\* C4 as stated: after max_short_term_size + k pairwise distinct contents
\* the buffer holds exactly the last max_short_term_size of them in
\* insertion order, and the long-term store holds exactly the k oldest, in
\* insertion order.
C4_FifoEviction ==
    DistinctCalls =>
        LET k == Len(calls) - max_short_term_size
        IN  /\ BufferTexts = SubSeq(calls, k + 1, Len(calls))
            /\ LongTermTexts = SubSeq(calls, 1, k)

\* C4 holds of backends.MemoryManager.
FifoEvictionInBackends == impl = "backends" => C4_FifoEviction

\* C5 as stated: after every completed process_content call the short-term
\* buffer holds at most max_short_term_size entries.
C5_BufferBounded ==
    (last.op = "process_content" /\ ~last.raised) =>
        Len(BufferTexts) <= max_short_term_size

\* C5 holds of backends.MemoryManager.
BufferBoundedInBackends == impl = "backends" => C5_BufferBounded

\* The metadata of the short-term entries, oldest first.
BufferMetas ==
    IF impl = "backends" THEN short_term.metadatas
    ELSE [ i \in 1 .. Len(short_term_collection) |-> short_term_collection[i].metadata ]

\* truthfulness = importance = 0.5 and sentiment = neutral.
IsNeutral(m) ==
    /\ m.truthfulness = P(50)
    /\ m.importance = P(50)
    /\ "sentiment" \in DOMAIN m
    /\ m.sentiment = "neutral"

\* Record i was inserted by the last operation.
CreatedNow(i) == long_term[i].timestamp = now

\* C6 as stated: with the analyzer absent every short-term entry, and every
\* long-term record process_content creates, has truthfulness = importance
\* = 0.5 and sentiment = neutral.  (Without an analyzer no operation of
\* backends.MemoryManager rescores a record, so there all records count.)
C6_NeutralDefaults ==
    ~HAS_ANALYZE =>
        /\ \A i \in 1 .. Len(BufferMetas) : IsNeutral(BufferMetas[i])
        /\ \A i \in Ids(long_term) :
              (impl = "backends" \/ (last.op = "process_content" /\ CreatedNow(i)))
                  => IsNeutral(long_term[i])

\* C6 as amended: with the analyzer absent, backends.MemoryManager gives
\* every short-term entry and every promoted record truthfulness =
\* importance = 0.5 and sentiment = neutral; memory.MemoryManager gives the
\* entry and the record a call creates the call's default_truthfulness and
\* default_importance (0.5 unless the caller passes other values), the
\* record sentiment = neutral, and the entry no sentiment at all.
C6_CallDefaults ==
    ~HAS_ANALYZE =>
        /\ impl = "backends" =>
              /\ \A i \in 1 .. Len(BufferMetas) : IsNeutral(BufferMetas[i])
              /\ \A i \in Ids(long_term) : IsNeutral(long_term[i])
        /\ (impl = "memory" /\ last.op = "process_content") =>
              LET entry == BufferMetas[Len(BufferMetas)]
              IN  /\ ~last.raised
                  /\ Len(BufferMetas) >= 1
                  /\ entry.timestamp = now
                  /\ entry.truthfulness = last.given[1]
                  /\ entry.importance = last.given[2]
                  /\ "sentiment" \notin DOMAIN entry
                  /\ \A i \in Ids(long_term) : CreatedNow(i) =>
                        /\ long_term[i].text = last.text
                        /\ long_term[i].truthfulness = last.given[1]
                        /\ long_term[i].importance = last.given[2]
                        /\ long_term[i].sentiment = "neutral"

\* C6 witness: without analyzer, a process_content call of
\* backends.MemoryManager created an entry and promoted an older one.
C6_Witness ==
    /\ ~HAS_ANALYZE
    /\ impl = "backends"
    /\ last.op = "process_content"
    /\ last.evicted
    /\ Len(long_term) >= 1
    /\ Len(short_term.documents) >= 1
    /\ short_term.metadatas[Len(short_term.metadatas)].timestamp = now

\* The elements of a sequence.
Range(seq) == { seq[i] : i \in 1 .. Len(seq) }

\* C7 as stated: after a call get_long_term(query_text, top_k), with or
\* without analyzer and whatever the analyzer returns, every record the
\* call returns has last_accessed >= the time of the call.
C7_ReturnedRecordsAccessed ==
    (last.op = "get_long_term" /\ ~last.raised) =>
        \A i \in 1 .. Len(last.result) : last.result[i][2].last_accessed >= now

PromotedRows ==
    IF last'.evicted
    THEN Add(long_term, Head(short_term.documents), Head(short_term.metadatas), now')
    ELSE long_term

\* The truthfulness values a fresh analysis, or the fallback, can carry.
NewTruthfulness == { P(50), P(80), P(120) }

\* C9 as stated, for backends.MemoryManager: when process_content finds an
\* existing record old with the text being processed, the record ends with importance
\* min(1.0, old.importance + 0.05) and truthfulness
\* min(1.0, (old.truthfulness + new.truthfulness) / 2 + 0.1).
C9_MergeFormula ==
    [][ ( /\ Step("process_content")
          /\ impl = "backends"
          /\ ~last'.raised
          /\ last'.matched # << >>
          /\ PromotedRows[last'.matched[1]].text = last'.text ) =>
          LET id_ == last'.matched[1]
              old == PromotedRows[id_]
          IN  /\ long_term'[id_].importance = Min(P(100), old.importance + P(5))
              /\ \E new \in NewTruthfulness :
                    long_term'[id_].truthfulness =
                        Min(P(100), (old.truthfulness + new) \div 2 + P(10)) ]_vars

\* C10 as stated: truthfulness and importance of every short-term entry
\* and every long-term record lie in [0.0, 1.0].
C10_ScoresInUnitInterval ==
    /\ \A i \in 1 .. Len(BufferMetas) :
          /\ BufferMetas[i].truthfulness \in 0 .. P(100)
          /\ BufferMetas[i].importance \in 0 .. P(100)
    /\ \A i \in Ids(long_term) :
          /\ long_term[i].truthfulness \in 0 .. P(100)
          /\ long_term[i].importance \in 0 .. P(100)

\* The table a process_content call consolidates into: for
\* backends.MemoryManager the table with the evicted entry promoted.
Consolidated == IF impl = "backends" THEN PromotedRows ELSE long_term

\* The ids of the records this step creates or changes by consolidation.
ConsolidatedIds ==
    { id_ \in Ids(long_term') :
        id_ \notin Ids(Consolidated) \/ long_term'[id_] # Consolidated[id_] }

\* This process_content step adds at most one entry to the short-term
\* buffer and creates or changes at most one long-term record by
\* consolidation.
OneFactStep ==
    (Step("process_content") /\ ~last'.raised) =>
        /\ Len(BufferTexts') <= Len(BufferTexts) + 1
        /\ Cardinality(ConsolidatedIds) <= 1

\* C11 as stated: whatever sequence of facts the analyzer returns, a
\* process_content call uses only the first: it creates at most one
\* short-term entry and consolidates at most one long-term record.
C11_OnlyFirstFact == [][OneFactStep]_vars

\* C11 holds of backends.MemoryManager, and of memory.MemoryManager when
\* there is no analyzer to return several facts.
OnlyFirstFactInBackends ==
    [][ (impl = "backends" \/ ~HAS_ANALYZE) => OneFactStep ]_vars

\* C12 as stated: whatever the analyzer does (raise, return nothing, an
\* empty list or a malformed fact), process_content raises nothing to its
\* caller.  (In these runs a process_content call has no other cause to
\* raise: parent_id is None, so the foreign key always holds.)
C12_AnalysisFailureRecovered ==
    last.op = "process_content" => ~last.raised

\* C13: once a long-term record exists, no add, update, process_content or
\* get_long_term changes its id, its text or its creation timestamp (no
\* record is ever removed either); and update(id, partial_metadata) changes
\* only fields that partial_metadata supplies, to the supplied values, only
\* in record id, and adds no record.
C13_StableIdentity ==
    /\ [][ \A id_ \in Ids(long_term) :
             /\ id_ \in Ids(long_term')
             /\ long_term'[id_].text = long_term[id_].text
             /\ long_term'[id_].timestamp = long_term[id_].timestamp ]_vars
    /\ [][ Step("update") =>
             /\ Len(long_term') = Len(long_term)
             /\ \E metadata \in UpdateMetas :
                   \A id_ \in Ids(long_term) :
                      \A k \in DOMAIN long_term[id_] :
                         long_term'[id_][k] # long_term[id_][k] =>
                            /\ id_ = last'.top_k
                            /\ k \in DOMAIN metadata
                            /\ long_term'[id_][k] = metadata[k] ]_vars

\* C13 witness: the last operation was an update() given timestamp 0 and
\* parent 1; the record has the new parent and still its own timestamp,
\* and another operation came after the record was created.
C13_Witness ==
    /\ last.op = "update"
    /\ ~last.raised
    /\ \E id_ \in last.written :
          /\ long_term[id_].parent = 1
          /\ long_term[id_].source = "unknown"
          /\ long_term[id_].importance # P(20)
          /\ long_term[id_].timestamp >= 1

\* C16 as stated, for backends.MemoryManager (no similarity capability):
\* apart from the promotion of the evicted entry, a process_content(content)
\* call leaves every long-term record whose text is not exactly content
\* unchanged.
C16_ExactMatchOnly ==
    [][ (Step("process_content") /\ impl = "backends" /\ ~last'.raised) =>
          \A id_ \in Ids(PromotedRows) :
             PromotedRows[id_].text # last'.text =>
                long_term'[id_] = PromotedRows[id_] ]_vars

\* The fields of a short-term entry's metadata.
EntryFields ==
    { "truthfulness", "importance", "sentiment", "source", "parent", "timestamp",
      "last_accessed" }

\* C17 as stated, for backends.MemoryManager: when process_content evicts
\* the oldest entry, the long-term record with that entry's text (unless the
\* merge step of the same call wrote to it afterwards) has the entry's
\* truthfulness, importance, sentiment, source, parent, timestamp and
\* last_accessed.
C17_PromotionKeepsMetadata ==
    [][ ( /\ Step("process_content")
          /\ impl = "backends"
          /\ last'.evicted
          /\ ~last'.raised ) =>
          LET evicted_doc  == Head(short_term.documents)
              evicted_meta == Head(short_term.metadatas)
          IN  \E id_ \in Ids(long_term') :
                 /\ long_term'[id_].text = evicted_doc
                 /\ id_ \notin last'.written =>
                       \A k \in EntryFields : long_term'[id_][k] = evicted_meta[k] ]_vars

C20_NoFactLost ==
    ~crashed =>
        \A i \in 1 .. Len(calls) :
           InSeq(calls[i], BufferTexts) \/ InSeq(calls[i], LongTermTexts)

\* C20 holds of backends.MemoryManager.
NoFactLostInBackends == impl = "backends" => C20_NoFactLost

\* C19 as stated: no process_content or get_long_term call lowers the
\* last_accessed of a long-term record.
C19_LastAccessedMonotonic ==
    [][ \A id_ \in Ids(long_term) :
          long_term'[id_].last_accessed >= long_term[id_].last_accessed ]_vars

\* Every thread is in no call.
Quiescent == \A t \in Threads : At(t, "idle")

\* The record thread t found and is about to merge into, and its metadata
\* as the thread's query returned it.
Found(t) == threads[t].existing[1][1]

AsRead(t) == threads[t].existing[1][2]

\* C14: the merge of process_content is not atomic.  A call of
\* memory.MemoryManager writes the scores it computed from the record as
\* its query read it, whatever has been written to the record since; when
\* another call has reinforced the record in between, the write does not
\* build on that reinforcement, and the record ends below the importance
\* every serial order gives it (the stored importance plus 0.05).
C14_LostUpdate ==
    [][ \A t \in Threads :
          (impl = "memory" /\ At(t, "merge") /\ threads'[t].pc # "merge") =>
             LET old    == AsRead(t)
                 stored == long_term[Found(t)]
                 new    == long_term'[Found(t)]
             IN  /\ new.importance = Min(P(100), old.importance + P(5))
                 /\ new.truthfulness =
                       Min(P(100), (old.truthfulness + Fact(t).truthfulness) \div 2 + P(10))
                 /\ stored.importance > old.importance =>
                       new.importance < Min(P(100), stored.importance + P(5)) ]_vars

\* After the merge, until the call returns.
Merged(t) == threads[t].pc \in { "count", "oldest", "delete" } /\ threads[t].existing # << >>

\* C14 witness: two concurrent calls for the same text have read the same
\* record with the same metadata, both have written their merge, and the
\* record's importance is the one they read plus 0.05, one reinforcement.
C14_Witness ==
    /\ impl = "memory"
    /\ Merged(1) /\ Merged(2)
    /\ threads[1].content = threads[2].content
    /\ threads[1].existing[1] = threads[2].existing[1]
    /\ long_term[Found(1)].text = threads[1].content
    /\ long_term[Found(1)].importance = AsRead(1).importance + P(5)
    /\ long_term[Found(1)].importance < P(100)

\* C15 as stated, for backends.MemoryManager called from several threads:
\* the buffer never holds the same text twice, and once all calls have
\* completed it holds at most max_short_term_size entries and as many
\* metadatas as documents.
C15_BufferStepAtomic ==
    impl = "backends" =>
        /\ \A i, j \in 1 .. Len(short_term.documents) :
              short_term.documents[i] = short_term.documents[j] => i = j
        /\ Quiescent =>
              /\ Len(short_term.documents) <= max_short_term_size
              /\ Len(short_term.metadatas) = Len(short_term.documents)

====
